---- MODULE Spec2Model ----
(***************************************************************************)
(* lessanvil: the region-file compaction engine (src/src/lib.rs).          *)
(*                                                                         *)
(* execute() checks the world folder, installs the global worker pool,     *)
(* enumerates the region files, samples the directory size and spawns a    *)
(* thread that sends Starting, lets the pool run process_region_file on    *)
(* every file (adding the counts to two atomics and sending one            *)
(* ProcessedRegion per file) and, when no send failed, sends Finished.     *)
(*                                                                         *)
(* The command-line tool (src/cli/src/main.rs) checks the world folder,    *)
(* asks for confirmation, calls execute and reads the updates; on Ctrl-C   *)
(* it drops the receiver and returns from main.                            *)
(* The graphical front end (src/gui/src/main.rs) copies the world to a     *)
(* backup folder, calls execute and lets go of the receiver at once.       *)
(*                                                                         *)
(* Integer overflow is modelled as the release build performs it           *)
(* (wrapping); usize is scaled down to UsizeBits bits.                     *)
(***************************************************************************)
EXTENDS Integers, Sequences, FiniteSets, TLC

(* ------------------------------ bounds -------------------------------- *)
\* slots of a region file (the code visits a 32 x 32 grid in raster order)
NumSlots == 2
\* largest InhabitedTime stored in a chunk of the model
MaxTime == 2
\* width of usize in the model
UsizeBits == 6
\* region files of the world
MaxFiles == 3
\* threads of the worker pool (Config.thread_count)
NumWorkers == 2
\* region files of the worlds the fair runs start from
MaxFairFiles == 2
\* region files of the worlds the command-line tool is started on
MaxCliFiles == 2
\* bytes other programs add to the world folder while the run lasts
MaxGrowth == 1

(* ------------------------------ helpers ------------------------------- *)
RECURSIVE Pow2(_)
Pow2(n) == IF n = 0 THEN 1 ELSE 2 * Pow2(n - 1)

UsizeModulus == Pow2(UsizeBits)
UsizeMax == UsizeModulus - 1

Max(S) == CHOOSE m \in S : \A k \in S : k <= m

RECURSIVE SumOver(_, _)
SumOver(f, S) ==
    IF S = {} THEN 0
    ELSE LET k == CHOOSE j \in S : TRUE IN f[k] + SumOver(f, S \ {k})

Slots == 0 .. (NumSlots - 1)
Workers == 1 .. NumWorkers

(* ----------------- the region container (fastanvil) ------------------- *)
\* the container's header, in sectors; payloads start behind it
HeaderLen == 2

\* A slot of the header: empty, or the location (off) of a payload of one
\* sector.  kind tells what reading and decoding the payload gives:
\*   "chunk"        read_chunk = Ok(Some(bytes)), from_bytes = Ok(Chunk{time})
\*   "unreadable"   read_chunk = Err(_) (payload the codec cannot read)
\*   "undecodable"  read_chunk = Ok(Some(bytes)), from_bytes = Err(_)
EmptySlot == [kind |-> "empty", time |-> 0, off |-> 0]

Populated(file) == {i \in Slots : file.slots[i].kind # "empty"}

\* Region::into_inner: the stream is positioned behind the last payload the
\* header still refers to (behind the header when it refers to none)
EndOfContent(file) ==
    IF Populated(file) = {} THEN HeaderLen
    ELSE Max({file.slots[i].off + 1 : i \in Populated(file)})

\* Region::remove_chunk: the slot's header entry is cleared; no payload moves
RemoveChunk(file, i) == [file EXCEPT !.slots[i] = EmptySlot]

\* Region::read_chunk
ReadChunk(file, i) ==
    CASE file.slots[i].kind = "empty" -> "None"
      [] file.slots[i].kind = "unreadable" -> "Err"
      [] OTHER -> "Some"

(* ----------------------- the files of a world ------------------------- *)
SlotValues ==
    {EmptySlot}
    \cup [kind : {"chunk"}, time : 0 .. MaxTime,
          off : HeaderLen .. (HeaderLen + NumSlots - 1)]
    \cup [kind : {"unreadable", "undecodable"}, time : {0},
          off : HeaderLen .. (HeaderLen + NumSlots - 1)]

\* no two payloads share a sector
WellLaidOut(slots) ==
    \A i, j \in Slots :
        (i # j /\ slots[i].kind # "empty" /\ slots[j].kind # "empty")
            => slots[i].off # slots[j].off

\* a file whose container opens: any content, with or without dead bytes
\* behind the last payload
OpenableFiles ==
    {[container |-> "ok", slots |-> s, len |-> EndOfContent([slots |-> s]) + d] :
        s \in {t \in [Slots -> SlotValues] : WellLaidOut(t)}, d \in {0, 1}}

\* a file File::open fails on, and one Region::from_stream fails on
BrokenFiles ==
    {[container |-> c, slots |-> [i \in Slots |-> EmptySlot], len |-> HeaderLen] :
        c \in {"missing", "corrupt"}}

RegionFiles == OpenableFiles \cup BrokenFiles

(* --------------------- process_region_file ---------------------------- *)
\* Result<ProcessedRegion, RegionProcessingError>; err = "none" while the
\* function has not returned
NoResult == [ok |-> FALSE, err |-> "none", total_chunks |-> 0, deleted_chunks |-> 0]
OkResult(t, d) == [ok |-> TRUE, err |-> "", total_chunks |-> t, deleted_chunks |-> d]
ErrResult(e) == [ok |-> FALSE, err |-> e, total_chunks |-> 0, deleted_chunks |-> 0]

\* the locals of one call: where it stands (pc), the slot the loops are at
\* and the two counts
NoCall == [pc |-> "none", idx |-> 0, total_chunks |-> 0, deleted_chunks |-> 0,
           res |-> NoResult]
NewCall == [NoCall EXCEPT !.pc = "open"]

\* lib.rs:100  config.max_inhabited_time * 20  (usize, wrapping)
Mul20(t) == (t * 20) % UsizeModulus

\* lib.rs:224  chunk.inhabited_time <= (man_inhabited_time / 20)
ShouldRemove(time, man_inhabited_time) == time <= (man_inhabited_time \div 20)

\* lib.rs:213-217  File::options().open(path)?  Region::from_stream(file)?
OpenStep(file, st) ==
    CASE file.container = "missing" ->
            [st EXCEPT !.pc = "done", !.res = ErrResult("IOError")]
      [] file.container = "corrupt" ->
            [st EXCEPT !.pc = "done", !.res = ErrResult("AnvilError")]
      [] OTHER -> [st EXCEPT !.pc = IF NumSlots = 0 THEN "truncate" ELSE "iter"]

\* where the loops go after slot st.idx
Advance(st) ==
    IF st.idx + 1 = NumSlots THEN [st EXCEPT !.pc = "truncate"]
    ELSE [st EXCEPT !.idx = st.idx + 1]

\* variant: a loop body that counts a removed chunk as deleted only
SlotStepCountsDeletedOnly(file, st, man) ==
    LET slot == file.slots[st.idx] IN
    IF ReadChunk(file, st.idx) # "Some" THEN Advance(st)
    ELSE IF slot.kind = "undecodable"
         THEN [st EXCEPT !.pc = "done", !.res = ErrResult("NBTError")]
    ELSE IF ShouldRemove(slot.time, man)
         THEN Advance([st EXCEPT !.deleted_chunks = st.deleted_chunks + 1])
    ELSE Advance([st EXCEPT !.total_chunks = st.total_chunks + 1])

\* variant: a loop that ends at a payload it cannot decode, and goes on to
\* truncate the file and return its counts
SlotStepBreaksOnError(file, st, man) ==
    LET slot == file.slots[st.idx] IN
    IF ReadChunk(file, st.idx) # "Some" THEN Advance(st)
    ELSE IF slot.kind = "undecodable" THEN [st EXCEPT !.pc = "truncate"]
    ELSE IF ShouldRemove(slot.time, man)
         THEN Advance([st EXCEPT !.total_chunks = st.total_chunks + 1,
                                 !.deleted_chunks = st.deleted_chunks + 1])
    ELSE Advance([st EXCEPT !.total_chunks = st.total_chunks + 1])

\* variant: a loop body that skips a payload it cannot decode
SlotStepSkipsUndecodable(file, st, man) ==
    LET slot == file.slots[st.idx] IN
    IF ReadChunk(file, st.idx) # "Some" \/ slot.kind = "undecodable" THEN Advance(st)
    ELSE IF ShouldRemove(slot.time, man)
         THEN Advance([st EXCEPT !.total_chunks = st.total_chunks + 1,
                                 !.deleted_chunks = st.deleted_chunks + 1])
    ELSE Advance([st EXCEPT !.total_chunks = st.total_chunks + 1])

\* lib.rs:221-227  one pass of the loop body, on slot st.idx
SlotStepSt(file, st, man) ==
    LET slot == file.slots[st.idx] IN
    IF ReadChunk(file, st.idx) # "Some" THEN Advance(st)
    ELSE IF slot.kind = "undecodable"
         THEN [st EXCEPT !.pc = "done", !.res = ErrResult("NBTError")]
    ELSE IF ShouldRemove(slot.time, man)
         THEN Advance([st EXCEPT !.total_chunks = st.total_chunks + 1,
                                 !.deleted_chunks = st.deleted_chunks + 1])
    ELSE Advance([st EXCEPT !.total_chunks = st.total_chunks + 1])

\* variant: a loop body that counts the chunk as deleted and leaves it in the file
SlotStepKeepsChunk(file, st, man) == file

\* lib.rs:224-225  the file after the pass: the slot is removed when the
\* chunk was read, decoded and found at or under the threshold
SlotStepFile(file, st, man) ==
    LET slot == file.slots[st.idx] IN
    IF ReadChunk(file, st.idx) = "Some" /\ slot.kind = "chunk"
       /\ ShouldRemove(slot.time, man)
    THEN RemoveChunk(file, st.idx)
    ELSE file

\* variant: a function that returns without truncating the file
TruncateNothing(file) == file

\* lib.rs:232-234  into_inner, stream_position, set_len(len)
TruncateFile(file) == [file EXCEPT !.len = EndOfContent(file)]

\* lib.rs:236-241
ReturnOk(st) ==
    [st EXCEPT !.pc = "done", !.res = OkResult(st.total_chunks, st.deleted_chunks)]

\* A file's failures are properties of the file (it is missing, its container
\* is malformed, a payload cannot be read or decoded): they are the same each
\* time the file is processed.

(* ------------------------------ state --------------------------------- *)
VARIABLES
    world,                \* the region files on disk, by file id
    worldExists,          \* config.world_folder.try_exists() gives Ok(true)
    max_inhabited_time,   \* config.max_inhabited_time
    epc,                  \* where the call of execute stands
    outcome,              \* what execute returned ("none": not yet)
    poolBuilt,            \* the process's global rayon pool is installed
    files,                \* the enumerated region files
    size_before,          \* dir_size before the run
    tpc,                  \* where the spawned thread stands
    pending,              \* files no worker has taken yet
    full,                 \* try_for_each's short circuit: a closure returned Err
    wk,                   \* the pool's workers
    total_chunks,         \* AtomicU64
    total_deleted_chunks, \* AtomicU64
    chan,                 \* the updates the channel accepted, in order
    rxAlive,              \* the Receiver has not been dropped
    done,                 \* what process_region_file returned, by file id
    run,                  \* 1, or 2 once the tool was started again
    prev,                 \* done and world at the end of run 1
    world0,               \* the region files as the run found them
    cli                   \* the command line's --force, and whether level.dat
                          \* and region/ exist under the world folder

vars == <<world, worldExists, max_inhabited_time, epc, outcome, poolBuilt, files,
          size_before, tpc, pending, full, wk, total_chunks,
          total_deleted_chunks, chan, rxAlive, done, run, prev, world0, cli>>

diskVars == <<worldExists, max_inhabited_time, cli>>
execVars == <<epc, outcome, poolBuilt, files, size_before>>
atomVars == <<total_chunks, total_deleted_chunks>>
histVars == <<run, prev, world0>>

FileIds == DOMAIN world

\* a u64, scaled like usize
U64Modulus == UsizeModulus

\* lib.rs:245-258  dir_size: the lengths of the files under the world folder
DirSize(w) == SumOver([f \in DOMAIN w |-> w[f].len], DOMAIN w)

(* ----------------------------- updates -------------------------------- *)
NoReport == [total_freed_space |-> 0, total_regions |-> 0, total_chunks |-> 0,
             total_deleted_chunks |-> 0]

Starting(n) ==
    [type |-> "Starting", total_files |-> n, file |-> 0, res |-> NoResult,
     report |-> NoReport]
ProcessedRegion(f, r) ==
    [type |-> "ProcessedRegion", total_files |-> 0, file |-> f, res |-> r,
     report |-> NoReport]
Finished(rep) ==
    [type |-> "Finished", total_files |-> 0, file |-> 0, res |-> NoResult,
     report |-> rep]

\* mpsc::Sender::send: the message is queued unless the Receiver is gone
ChanSend(c, alive, msg) == IF alive THEN Append(c, msg) ELSE c

IdleWorker == [pc |-> "idle", file |-> 0, st |-> NoCall]

(* ------------------------------ Init ---------------------------------- *)
Thresholds == (0 .. (MaxTime + 1)) \cup {UsizeModulus \div 20 + 1, UsizeMax}

\* a caller of the library: no command line, execute is called at once
NoCli == [force |-> FALSE, level_dat |-> TRUE, region |-> TRUE]

\* the state of a fresh process started on the world w with threshold t,
\* by the front end a, at the position pc
FreshFrom(w, e, t, a, pc) ==
    /\ world = w
    /\ worldExists = e
    /\ max_inhabited_time = t
    /\ cli = a
    /\ epc = pc
    /\ outcome = "none"
    /\ poolBuilt = FALSE
    /\ files = <<>>
    /\ size_before = 0
    /\ tpc = "none"
    /\ pending = {}
    /\ full = FALSE
    /\ wk = [w1 \in Workers |-> IdleWorker]
    /\ total_chunks = 0
    /\ total_deleted_chunks = 0
    /\ chan = <<>>
    /\ rxAlive = TRUE
    /\ done = [f \in DOMAIN w |-> NoResult]
    /\ world0 = w

Fresh(w, e, t) == FreshFrom(w, e, t, NoCli, "check_world")

\* files of a run of several workers: one that compacts, one whose
\* container is malformed, one that fails to decode after a removal
GoodFile ==
    [container |-> "ok",
     slots |-> [i \in Slots |->
                  IF i = 0 THEN [kind |-> "chunk", time |-> 0, off |-> HeaderLen + 1]
                  ELSE IF i = 1 THEN [kind |-> "chunk", time |-> MaxTime, off |-> HeaderLen]
                  ELSE EmptySlot],
     len |-> HeaderLen + 2]
CorruptFile ==
    [container |-> "corrupt", slots |-> [i \in Slots |-> EmptySlot], len |-> HeaderLen]
BadNbtFile ==
    [container |-> "ok",
     slots |-> [i \in Slots |->
                  IF i = 0 THEN [kind |-> "chunk", time |-> 0, off |-> HeaderLen + 1]
                  ELSE IF i = 1 THEN [kind |-> "undecodable", time |-> 0, off |-> HeaderLen]
                  ELSE EmptySlot],
     len |-> HeaderLen + 2]
Catalog == <<GoodFile, CorruptFile, BadNbtFile>>

\* worlds of up to MaxFiles files of the catalog (the order of the files
\* does not matter to the pool: one world per multiset)
Worlds ==
    UNION {{[i \in 1 .. n |-> Catalog[c[i]]] :
              c \in {d \in [1 .. n -> 1 .. Len(Catalog)] :
                        \A i \in 1 .. n : \A j \in 1 .. n : i <= j => d[i] <= d[j]}} :
           n \in 0 .. MaxFiles}

Init ==
    /\ \E w \in Worlds, e \in BOOLEAN, t \in {0, MaxTime} : Fresh(w, e, t)
    /\ run = 1
    /\ prev = [done |-> <<>>, world |-> <<>>]

(* ----------------------------- execute -------------------------------- *)
Return(o) == epc' = "returned" /\ outcome' = o

\* variant: a check of the world folder that lets a missing folder through
WorldFoundAlways(exists) == TRUE

\* lib.rs:73  config.world_folder.try_exists().map_or(false, |r| r)
WorldFound(exists) == exists

\* lib.rs:73-75
ExecCheckWorld ==
    /\ epc = "check_world"
    /\ IF WorldFound(worldExists) THEN epc' = "build_pool" /\ outcome' = outcome
       ELSE Return("WorldFolderNotFound")
    /\ UNCHANGED <<world, diskVars, poolBuilt, files, size_before, tpc, pending,
                   full, wk, atomVars, chan, rxAlive, done, histVars>>

\* variant: a pool that is built anew by every call
BuildPoolAnew(ok) ==
    IF ok
    THEN epc' = "collect" /\ outcome' = outcome /\ poolBuilt' = TRUE
    ELSE Return("RayonError") /\ poolBuilt' = poolBuilt

\* lib.rs:77-81  build_global()?: fails when the threads cannot be made, and
\* when the process has its global pool already
BuildPool(ok) ==
    IF ok /\ ~poolBuilt
    THEN epc' = "collect" /\ outcome' = outcome /\ poolBuilt' = TRUE
    ELSE Return("RayonError") /\ poolBuilt' = poolBuilt

ExecBuildPool ==
    /\ epc = "build_pool"
    /\ \E ok \in BOOLEAN : BuildPool(ok)
    /\ UNCHANGED <<world, diskVars, files, size_before, tpc, pending, full, wk,
                   atomVars, chan, rxAlive, done, histVars>>

\* lib.rs:139-160  collect_region_files: every region file once; read_dir()?
\* returns the error, entry.unwrap() panics on it
CollectRegionFiles(w) == [i \in 1 .. Len(w) |-> i]

ExecCollect ==
    /\ epc = "collect"
    /\ \E r \in {"ok", "IOError", "panic"} :
          IF r = "ok"
          THEN epc' = "size_before" /\ outcome' = outcome
               /\ files' = CollectRegionFiles(world)
          ELSE Return(r) /\ files' = files
    /\ UNCHANGED <<world, diskVars, poolBuilt, size_before, tpc, pending, full, wk,
                   atomVars, chan, rxAlive, done, histVars>>

\* lib.rs:85  dir_size(..)?
ExecSizeBefore ==
    /\ epc = "size_before"
    /\ \E ok \in BOOLEAN :
          IF ok
          THEN epc' = "spawn" /\ outcome' = outcome /\ size_before' = DirSize(world)
          ELSE Return("IOError") /\ size_before' = size_before
    /\ UNCHANGED <<world, diskVars, poolBuilt, files, tpc, pending, full, wk,
                   atomVars, chan, rxAlive, done, histVars>>

\* lib.rs:91, 136  thread::spawn(..); Ok(rx)
ExecSpawn ==
    /\ epc = "spawn"
    /\ Return("Ok")
    /\ tpc' = "starting"
    /\ UNCHANGED <<world, diskVars, poolBuilt, files, size_before, pending, full,
                   wk, atomVars, chan, rxAlive, done, histVars>>

(* ------------------------- the spawned thread ------------------------- *)
\* lib.rs:92-94  let _ = tx.send(Starting { total_files: files.len() })
ThreadStarting ==
    /\ tpc = "starting"
    /\ chan' = ChanSend(chan, rxAlive, Starting(Len(files)))
    /\ pending' = {files[i] : i \in 1 .. Len(files)}
    /\ tpc' = "dispatch"
    /\ UNCHANGED <<world, diskVars, execVars, full, wk, atomVars, rxAlive, done,
                   histVars>>

\* variant: a dispatcher that goes on handing out files after a closure has
\* returned Err
CanTakeThoughFull(w, f) == wk[w].pc = "idle" /\ f \in pending

\* variant: a dispatcher that hands out a file whether or not it was taken
CanTakeAgain(w, f) == wk[w].pc = "idle" /\ ~full

\* lib.rs:96-98  into_par_iter().try_for_each_with: an idle worker takes any
\* file not taken yet, unless a closure has returned Err
CanTake(w, f) == wk[w].pc = "idle" /\ f \in pending /\ ~full

\* variant: a file that stays with the dispatcher after it was handed out
TakeKeeps(p, f) == p

\* a file is handed to one closure call
TakeFrom(p, f) == p \ {f}

WorkerTake(w, f) ==
    /\ tpc = "dispatch"
    /\ CanTake(w, f)
    /\ pending' = TakeFrom(pending, f)
    /\ wk' = [wk EXCEPT ![w] = [pc |-> "call", file |-> f, st |-> NewCall]]
    /\ UNCHANGED <<world, diskVars, execVars, tpc, full, atomVars, chan, rxAlive,
                   done, histVars>>

\* lib.rs:102-112  after the call: the two fetch_add when it returned Ok
AfterCall(st) ==
    IF st.pc # "done" THEN "call"
    ELSE IF st.res.ok THEN "add_total" ELSE "send"

\* the worker's call has moved to st, its file to file
Proceed(w, file, st) ==
    /\ world' = [world EXCEPT ![wk[w].file] = file]
    /\ wk' = [wk EXCEPT ![w].st = st, ![w].pc = AfterCall(st)]
    /\ done' = IF st.pc = "done" THEN [done EXCEPT ![wk[w].file] = st.res] ELSE done

\* lib.rs:99-100  process_region_file(path, config.max_inhabited_time * 20)
WorkerOpen(w) ==
    /\ wk[w].pc = "call" /\ wk[w].st.pc = "open"
    /\ Proceed(w, world[wk[w].file], OpenStep(world[wk[w].file], wk[w].st))
    /\ UNCHANGED <<diskVars, execVars, tpc, pending, full, atomVars, chan, rxAlive,
                   histVars>>

WorkerSlot(w) ==
    /\ wk[w].pc = "call" /\ wk[w].st.pc = "iter"
    /\ LET file == world[wk[w].file]
           man == Mul20(max_inhabited_time)
       IN Proceed(w, SlotStepFile(file, wk[w].st, man), SlotStepSt(file, wk[w].st, man))
    /\ UNCHANGED <<diskVars, execVars, tpc, pending, full, atomVars, chan, rxAlive,
                   histVars>>

WorkerTruncate(w) ==
    /\ wk[w].pc = "call" /\ wk[w].st.pc = "truncate"
    /\ Proceed(w, TruncateFile(world[wk[w].file]), ReturnOk(wk[w].st))
    /\ UNCHANGED <<diskVars, execVars, tpc, pending, full, atomVars, chan, rxAlive,
                   histVars>>

\* lib.rs:109  total_chunks.fetch_add(chunks as u64, Relaxed)
AddTotal(counter, res) == (counter + res.total_chunks) % U64Modulus

\* variant: the deleted count added from the wrong field
AddDeletedFromTotal(counter, res) == (counter + res.total_chunks) % U64Modulus

\* lib.rs:110-111  total_deleted_chunks.fetch_add(deleted_chunks as u64, Relaxed)
AddDeleted(counter, res) == (counter + res.deleted_chunks) % U64Modulus

WorkerAddTotal(w) ==
    /\ wk[w].pc = "add_total"
    /\ total_chunks' = AddTotal(total_chunks, wk[w].st.res)
    /\ wk' = [wk EXCEPT ![w].pc = "add_deleted"]
    /\ UNCHANGED <<world, diskVars, execVars, tpc, pending, full,
                   total_deleted_chunks, chan, rxAlive, done, histVars>>

WorkerAddDeleted(w) ==
    /\ wk[w].pc = "add_deleted"
    /\ total_deleted_chunks' = AddDeleted(total_deleted_chunks, wk[w].st.res)
    /\ wk' = [wk EXCEPT ![w].pc = "send"]
    /\ UNCHANGED <<world, diskVars, execVars, tpc, pending, full, total_chunks,
                   chan, rxAlive, done, histVars>>

\* variant: a closure that returns Err as soon as the file's result is an error
ClosureFailsOnError(alive, res) == ~alive \/ ~res.ok

\* lib.rs:114-120  the closure returns Err(()) exactly when the send failed
ClosureFails(alive, res) == ~alive

\* lib.rs:114-120  t.send(ProcessedRegion(..)): a closure whose send went
\* through returns Ok(()) and its worker is free for the next file; one
\* whose send failed is left holding Err(()), not yet returned to the pool
WorkerSend(w) ==
    /\ wk[w].pc = "send"
    /\ chan' = ChanSend(chan, rxAlive, ProcessedRegion(wk[w].file, wk[w].st.res))
    /\ wk' = IF ClosureFails(rxAlive, wk[w].st.res)
             THEN [wk EXCEPT ![w].pc = "failed"]
             ELSE [wk EXCEPT ![w] = IdleWorker]
    /\ UNCHANGED <<world, diskVars, execVars, tpc, pending, full, atomVars, rxAlive,
                   done, histVars>>

\* lib.rs:96, 120  the closure returns Err(()) to try_for_each_with, which
\* from then on hands out no file
WorkerReturn(w) ==
    /\ wk[w].pc = "failed"
    /\ full' = TRUE
    /\ wk' = [wk EXCEPT ![w] = IdleWorker]
    /\ UNCHANGED <<world, diskVars, execVars, tpc, pending, atomVars, chan, rxAlive,
                   done, histVars>>

\* variant: a join that does not wait for the closures still running
JoinEarly == pending = {} \/ full

\* lib.rs:96, 122  try_for_each_with returns: every file was taken or a
\* closure returned Err, and no worker is in a closure
JoinReady == (pending = {} \/ full) /\ \A w \in Workers : wk[w].pc = "idle"

\* variant: a run that reports only when no file failed
AfterJoinStrict(failed) ==
    IF failed \/ \E f \in FileIds : ~done[f].ok THEN "done" ELSE "report"

\* lib.rs:122  if result.is_ok()
AfterJoin(failed) == IF failed THEN "done" ELSE "report"

ThreadJoin ==
    /\ tpc = "dispatch"
    /\ JoinReady
    /\ tpc' = AfterJoin(full)
    /\ UNCHANGED <<world, diskVars, execVars, pending, full, wk, atomVars, chan,
                   rxAlive, done, histVars>>

\* lib.rs:123  dir_size(..).unwrap_or(0): the size of the world folder as it
\* is after the run, or 0 when it cannot be measured
SizeAfter(ok, size) == IF ok THEN size % U64Modulus ELSE 0

\* lib.rs:123  size_before - dir_size(..).unwrap_or(0)  (u64, wrapping)
FreedSpace(before, after) == (before - after) % U64Modulus

\* lib.rs:126-132
Report(freed) ==
    [total_freed_space |-> freed, total_regions |-> Len(files),
     total_chunks |-> total_chunks, total_deleted_chunks |-> total_deleted_chunks]

ThreadFinished ==
    /\ tpc = "report"
    /\ \E ok \in BOOLEAN, grown \in 0 .. MaxGrowth :
          LET after == SizeAfter(ok, DirSize(world) + grown)
          IN chan' = ChanSend(chan, rxAlive, Finished(Report(FreedSpace(size_before, after))))
    /\ tpc' = "done"
    /\ UNCHANGED <<world, diskVars, execVars, pending, full, wk, atomVars, rxAlive,
                   done, histVars>>

(* ---------------------------- the consumer ---------------------------- *)
\* the front end drops the Receiver execute returned
DropRx ==
    /\ outcome = "Ok"
    /\ rxAlive
    /\ rxAlive' = FALSE
    /\ UNCHANGED <<world, diskVars, execVars, tpc, pending, full, wk, atomVars, chan,
                   done, histVars>>

(* --------------------------- specification ---------------------------- *)
Worker(w) ==
    \/ \E f \in FileIds : WorkerTake(w, f)
    \/ WorkerOpen(w)
    \/ WorkerSlot(w)
    \/ WorkerTruncate(w)
    \/ WorkerAddTotal(w)
    \/ WorkerAddDeleted(w)
    \/ WorkerSend(w)

\* the consumer goes, and the closures whose send has failed return
Cancel ==
    \/ DropRx
    \/ \E w \in Workers : WorkerReturn(w)

Execute ==
    \/ ExecCheckWorld
    \/ ExecBuildPool
    \/ ExecCollect
    \/ ExecSizeBefore
    \/ ExecSpawn

Thread ==
    \/ ThreadStarting
    \/ ThreadJoin
    \/ ThreadFinished

Next ==
    \/ Execute
    \/ Thread
    \/ \E w \in Workers : Worker(w)
    \/ Cancel

Spec == Init /\ [][Next]_vars

(* ---------------- the tool is run again on the same world -------------- *)
\* the process has ended: execute failed, or the spawned thread is through
ProcessEnded == (epc = "returned" /\ outcome # "Ok") \/ tpc = "done"

Rerun ==
    /\ run = 1
    /\ ProcessEnded
    /\ run' = 2
    /\ prev' = [done |-> done, world |-> world]
    /\ world0' = world
    /\ epc' = "check_world"
    /\ outcome' = "none"
    /\ poolBuilt' = FALSE
    /\ files' = <<>>
    /\ size_before' = 0
    /\ tpc' = "none"
    /\ pending' = {}
    /\ full' = FALSE
    /\ wk' = [w \in Workers |-> IdleWorker]
    /\ total_chunks' = 0
    /\ total_deleted_chunks' = 0
    /\ chan' = <<>>
    /\ rxAlive' = TRUE
    /\ done' = [f \in FileIds |-> NoResult]
    /\ UNCHANGED <<world, diskVars>>

\* one region file of any content, any threshold, a consumer that stays
RegionInit ==
    /\ \E f \in RegionFiles, t \in Thresholds : Fresh(<<f>>, TRUE, t)
    /\ run = 1
    /\ prev = [done |-> <<>>, world |-> <<>>]

RegionNext ==
    \/ Execute
    \/ Thread
    \/ \E w \in Workers : Worker(w)
    \/ Rerun

RegionSpec == RegionInit /\ [][RegionNext]_vars

(* ------------------------ the command-line tool ------------------------ *)
\* cli main.rs:59-61  !args.force && !level.dat.exists() || !region.exists()
InvalidWorld(a) == (~a.force /\ ~a.level_dat) \/ ~a.region

\* cli main.rs:58-65  "Invalid world folder!", process::exit(1)
CliCheckWorld ==
    /\ epc = "cli_check"
    /\ epc' = IF InvalidWorld(cli) THEN "exit1" ELSE "cli_confirm"
    /\ UNCHANGED <<world, diskVars, outcome, poolBuilt, files, size_before, tpc,
                   pending, full, wk, atomVars, chan, rxAlive, done, histVars>>

\* cli main.rs:67-78  --confirm, or the answer to "Do you want to continue?"
CliConfirm ==
    /\ epc = "cli_confirm"
    /\ \E go \in BOOLEAN : epc' = IF go THEN "check_world" ELSE "exit1"
    /\ UNCHANGED <<world, diskVars, outcome, poolBuilt, files, size_before, tpc,
                   pending, full, wk, atomVars, chan, rxAlive, done, histVars>>

\* cli main.rs:115, 164-167  Ctrl-C is looked at after a recv, the first of
\* which returns Starting: "Aborting.", drop(rx)
CtrlC == chan # <<>> /\ DropRx

\* what the end of the process leaves of a thread: nothing of one that was
\* at work
Killed(pc, rest) == IF pc = rest THEN rest ELSE "killed"

\* cli main.rs:167-169  return: main returns and the process ends, its
\* threads with it, wherever they stand
MainReturn ==
    /\ epc = "returned" /\ outcome = "Ok" /\ ~rxAlive
    /\ epc' = "exited"
    /\ tpc' = Killed(tpc, "done")
    /\ wk' = [w \in Workers |-> [wk[w] EXCEPT !.pc = Killed(@, "idle")]]
    /\ UNCHANGED <<world, diskVars, outcome, poolBuilt, files, size_before,
                   pending, full, atomVars, chan, rxAlive, done, histVars>>

CliArgs == [force : BOOLEAN, level_dat : BOOLEAN, region : BOOLEAN]

\* the tool started on a world folder: the region files are those of its
\* region directory, none when it has no such directory
CliInit ==
    /\ \E w \in {v \in Worlds : Len(v) <= MaxCliFiles}, a \in CliArgs,
          t \in {0, MaxTime} :
            /\ ~a.region => w = <<>>
            /\ FreshFrom(w, TRUE, t, a, "cli_check")
    /\ run = 1
    /\ prev = [done |-> <<>>, world |-> <<>>]

Cli ==
    \/ CliCheckWorld
    \/ CliConfirm
    \/ CtrlC
    \/ \E w \in Workers : WorkerReturn(w)
    \/ MainReturn

CliNext ==
    \/ Cli
    \/ Execute
    \/ Thread
    \/ \E w \in Workers : Worker(w)

CliSpec == CliInit /\ [][CliNext]_vars

(* ===================== properties of the update stream ================= *)
Positions(type) == {i \in 1 .. Len(chan) : chan[i].type = type}
HasFinished == Positions("Finished") # {}
RegionEvents(f) == {i \in Positions("ProcessedRegion") : chan[i].file = f}
OkEvents == {i \in Positions("ProcessedRegion") : chan[i].res.ok}
ErrEvents == Positions("ProcessedRegion") \ OkEvents
Enumerated == {files[i] : i \in 1 .. Len(files)}
RunOver == tpc = "done"

SumTotal(S) == SumOver([i \in S |-> chan[i].res.total_chunks], S)
SumDeleted(S) == SumOver([i \in S |-> chan[i].res.deleted_chunks], S)


\* C1: while the consumer holds the receiver, the stream is one Starting that
\* carries the number of enumerated files, then at most one ProcessedRegion
\* per enumerated file, then at most one Finished, which nothing follows; and
\* when the run is over it is exactly Starting, one ProcessedRegion for every
\* enumerated file, Finished.
StreamIsStartingRegionsFinished ==
    rxAlive =>
        /\ \A i \in Positions("Starting") :
              i = 1 /\ chan[i].total_files = Len(files)
        /\ (tpc \in {"dispatch", "report", "done"}) => Positions("Starting") = {1}
        /\ \A i \in Positions("Finished") : i = Len(chan)
        /\ \A i \in Positions("ProcessedRegion") :
              /\ i > 1
              /\ chan[i].file \in Enumerated
              /\ RegionEvents(chan[i].file) = {i}
        /\ RunOver =>
              /\ Len(chan) = Len(files) + 2
              /\ chan[1].type = "Starting"
              /\ chan[Len(chan)].type = "Finished"
              /\ \A f \in Enumerated : Cardinality(RegionEvents(f)) = 1

\* C1 witness: a finished run of two files and more, the consumer connected
StreamComplete ==
    /\ rxAlive /\ RunOver /\ Len(files) >= 2
    /\ chan[Len(chan)].type = "Finished"
    /\ OkEvents # {} /\ ErrEvents # {}

\* C2: the totals of a Finished event are the sums of the counts of the
\* successful ProcessedRegion events of the run.
FinishedTotalsAreEventSums ==
    \A i \in Positions("Finished") :
        /\ chan[i].report.total_chunks = SumTotal(OkEvents)
        /\ chan[i].report.total_deleted_chunks = SumDeleted(OkEvents)

\* C2 witness: Finished after two successful files that each removed a chunk
FinishedSumsTwoFiles ==
    /\ HasFinished
    /\ Cardinality({i \in OkEvents : chan[i].res.deleted_chunks > 0}) >= 2
    /\ ErrEvents # {}

FileErrorsAreIsolated ==
    rxAlive =>
        /\ ~full
        /\ \A i \in Positions("ProcessedRegion") : chan[i].res = done[chan[i].file]
        /\ RunOver =>
              /\ \A f \in Enumerated : Cardinality(RegionEvents(f)) = 1
              /\ HasFinished
              /\ LET ok == {f \in Enumerated : done[f].ok}
                     rep == chan[Len(chan)].report
                 IN /\ Cardinality(OkEvents) = Cardinality(ok)
                    /\ rep.total_chunks =
                          SumOver([f \in ok |-> done[f].total_chunks], ok)
                    /\ rep.total_deleted_chunks =
                          SumOver([f \in ok |-> done[f].deleted_chunks], ok)

\* C5 witness: three files, one with a malformed container: two successes,
\* one error, Finished
TwoSuccessesOneError ==
    /\ rxAlive /\ RunOver /\ Len(files) = 3
    /\ Cardinality(OkEvents) = 2
    /\ \E i \in ErrEvents : chan[i].res.err = "AnvilError"
    /\ HasFinished
    /\ chan[Len(chan)].report.total_chunks > 0

\* C6: a failed setup (an error returned, or the panic of the enumeration)
\* comes before the thread is spawned: no worker has started, no event was
\* sent, no region file has changed; a missing world folder is answered
\* with WorldFolderNotFound before the pool is built or a file enumerated.
SetupFailed == outcome \in {"WorldFolderNotFound", "RayonError", "IOError", "panic"}

FairInit ==
    /\ \E w \in {v \in Worlds : Len(v) <= MaxFairFiles}, e \in BOOLEAN,
          t \in {0, MaxTime} : Fresh(w, e, t)
    /\ run = 1
    /\ prev = [done |-> <<>>, world |-> <<>>]

FairSpec ==
    /\ FairInit
    /\ [][Next]_vars
    /\ WF_vars(Execute)
    /\ WF_vars(Thread)
    /\ \A w \in Workers : WF_vars(Worker(w)) /\ WF_vars(WorkerReturn(w))

AllFilesFailed == \A f \in FileIds : done[f].err \notin {"", "none"}

\* C4: once execute has returned Ok, a run whose consumer stays connected
\* comes to send Finished, whatever the files' results; when every file
\* failed the report carries zero counts.
FinishedEventually ==
    /\ (outcome = "Ok") ~> (~rxAlive \/ HasFinished)
    /\ [](HasFinished /\ AllFilesFailed =>
            /\ chan[Len(chan)].report.total_chunks = 0
            /\ chan[Len(chan)].report.total_deleted_chunks = 0)

\* C4 witness: Finished was sent although each of the files failed
FinishedThoughAllFailed ==
    /\ HasFinished /\ Len(files) >= 2 /\ AllFilesFailed
    /\ Cardinality(ErrEvents) = Len(files)
    /\ chan[Len(chan)].report.total_chunks = 0

(* ==================== properties of process_region_file =============== *)
Returned(f) == done[f].err # "none"
ChunkSlots(file) == {i \in Slots : file.slots[i].kind = "chunk"}
AtOrUnder(file, t) == {i \in Populated(file) : file.slots[i].time <= t}


\* C7: a file processed with success has examined = its populated slots and
\* removed = its populated slots whose time is at or under the configured
\* threshold.
CountsMatchPopulatedSlots ==
    \A f \in FileIds :
        done[f].ok =>
            /\ done[f].total_chunks = Cardinality(Populated(world0[f]))
            /\ done[f].deleted_chunks =
                  Cardinality(AtOrUnder(world0[f], max_inhabited_time))

\* what holds of the counts: they are those of the slots that read and
\* decode, against the threshold process_region_file compares with
CountsMatchReadableSlots ==
    \A f \in FileIds :
        done[f].ok =>
            LET t == Mul20(max_inhabited_time) \div 20
                at == {i \in ChunkSlots(world0[f]) : world0[f].slots[i].time <= t}
            IN /\ done[f].total_chunks = Cardinality(ChunkSlots(world0[f]))
               /\ done[f].deleted_chunks = Cardinality(at)
               /\ \A i \in Slots :
                     world[f].slots[i] =
                        IF i \in at THEN EmptySlot ELSE world0[f].slots[i]

\* C8: a chunk is removed exactly when its stored time, in ticks, is at or
\* under the configured threshold, in seconds, times 20 (stated for the
\* thresholds whose product with 20 fits a usize).
RemovedIffUnderThresholdTimes20 ==
    \A f \in FileIds :
        (done[f].ok /\ max_inhabited_time * 20 <= UsizeMax) =>
            \A i \in ChunkSlots(world0[f]) :
                (world[f].slots[i] = EmptySlot)
                    <=> (world0[f].slots[i].time <= max_inhabited_time * 20)

\* C9: the second run on a file the first run processed with success removes
\* nothing, examines what the first run left, and leaves the file as it is.
SecondRunRemovesNothing ==
    \A f \in FileIds :
        (run = 2 /\ prev.done[f].ok) =>
            /\ world[f] = prev.world[f]
            /\ Returned(f) =>
                  /\ done[f].ok
                  /\ done[f].deleted_chunks = 0
                  /\ done[f].total_chunks =
                        prev.done[f].total_chunks - prev.done[f].deleted_chunks

\* C9 witness: the second run has returned for a file the first run took a
\* chunk out of and left a chunk in
SecondRunReturned ==
    /\ run = 2 /\ FileIds # {}
    /\ \E f \in FileIds :
          /\ prev.done[f].ok /\ prev.done[f].deleted_chunks >= 1
          /\ done[f].ok /\ done[f].total_chunks >= 1

\* C10: after a successful return the file ends right behind its last
\* remaining payload: no payload lies beyond the length, one ends at it, and
\* a file left without payloads ends behind the header.
FileEndsBehindLastPayload ==
    \A f \in FileIds :
        done[f].ok =>
            /\ \A i \in Populated(world[f]) : world[f].slots[i].off + 1 <= world[f].len
            /\ Populated(world[f]) # {} =>
                  \E i \in Populated(world[f]) : world[f].slots[i].off + 1 = world[f].len
            /\ Populated(world[f]) = {} => world[f].len = HeaderLen

\* C10 witness: the payload at the end of the file was removed, another one
\* stays, and the file has become shorter
TrailingPayloadReclaimed ==
    \E f \in FileIds :
        /\ done[f].ok /\ done[f].deleted_chunks >= 1
        /\ Populated(world[f]) # {}
        /\ world[f].len < EndOfContent(world0[f])

(* ========================= properties of a cancelled run =============== *)
\* a worker's send has failed: its closure holds Err(()), or has returned it
FailedSendSeen == full \/ \E w \in Workers : wk[w].pc = "failed"
Starts(w) == wk[w].pc = "idle" /\ wk'[w].pc = "call"

\* C11: once a worker has seen its send fail, no worker starts on a file and
\* no ProcessedRegion or Finished event is produced, however the workers
\* interleave.
NoFileStartsAfterFailedSend ==
    [][FailedSendSeen =>
          /\ \A w \in Workers : ~Starts(w)
          /\ Positions("ProcessedRegion")' = Positions("ProcessedRegion")
          /\ Positions("Finished")' = Positions("Finished")]_vars

\* what holds: no event is accepted after a failed send, and no worker
\* starts on a file once a closure has returned its Err(()) to the pool
NoFileStartsAfterErrReturned ==
    [][/\ FailedSendSeen => chan' = chan
       /\ full => \A w \in Workers : ~Starts(w)]_vars

\* no thread of the run is left: the spawned thread is through, or the
\* process has ended
RunEnded == tpc \in {"done", "killed"}

\* C12: a cancelled run leaves no region file partially modified: when it
\* has ended, every file a worker has removed a slot of has been run through
\* all its slots and, on success, truncated; in the engine, and in the
\* command-line tool that drops the receiver and returns on Ctrl-C.
StartedFilesRunThrough ==
    (~rxAlive /\ RunEnded) =>
        \A f \in FileIds :
            world[f] # world0[f] =>
                /\ Returned(f)
                /\ done[f].ok => world[f].len = EndOfContent(world[f])

(* ===================== properties of the size samples ================== *)
\* C13: a failure of the measurement of the directory size does not fail
\* the run: execute goes on from the sample before the run whether or not
\* it could be taken, and the sample after the run, taken or not, is
\* followed by Finished.
SizeSampleNeverFailsRun ==
    [][/\ (epc = "size_before" /\ epc' # epc) => (epc' = "spawn" /\ outcome' = "none")
       /\ (tpc = "report" /\ tpc' # tpc /\ rxAlive) =>
              Positions("Finished")' = {Len(chan) + 1}]_vars

\* what holds: the sample after the run does not fail it
SizeAfterNeverFailsRun ==
    [][(tpc = "report" /\ tpc' # tpc /\ rxAlive) =>
          Positions("Finished")' = {Len(chan) + 1}]_vars

\* C14: the freed space a Finished event reports is size_before minus
\* size_after, never negative and never more than size_before, also when
\* the directory has grown during the run.
FreedSpaceWithinSizeBefore ==
    \A i \in Positions("Finished") :
        /\ chan[i].report.total_freed_space >= 0
        /\ chan[i].report.total_freed_space <= size_before

(* ======================== properties of the dispatch =================== *)
Busy(w) == wk[w].pc # "idle"

\* C15: no region file is with two workers at the same time, and a file is
\* handed out at most once in a run: the enumeration lists it once, a worker
\* starts only on a file nobody has taken, and a file taken is never handed
\* out again.
EachFileToOneWorker ==
    /\ [](/\ \A v \in Workers : \A w \in Workers :
                (v # w /\ Busy(v) /\ Busy(w)) => wk[v].file # wk[w].file
          /\ \A i \in 1 .. Len(files) : \A j \in 1 .. Len(files) :
                files[i] = files[j] => i = j
          /\ \A w \in Workers : Busy(w) => wk[w].file \in Enumerated \ pending)
    /\ [][/\ tpc = "dispatch" => pending' \subseteq pending
          /\ \A w \in Workers :
                Starts(w) =>
                    LET f == wk'[w].file
                    IN /\ f \in pending /\ f \notin pending'
                       /\ done[f] = NoResult
                       /\ world[f] = world0[f]
                       /\ RegionEvents(f) = {}
                       /\ \A v \in Workers : Busy(v) => wk[v].file # f]_vars

\* C15 witness: two workers are between the slots of two files while a
\* third file has been processed
TwoFilesAtOnce ==
    /\ \E f \in FileIds : Returned(f)
    /\ \E v \in Workers : \E w \in Workers :
          /\ v # w /\ wk[v].file # wk[w].file
          /\ wk[v].pc = "call" /\ wk[v].st.pc = "iter"
          /\ wk[w].pc = "call" /\ wk[w].st.pc = "iter"

(* ========================= properties of the counts ==================== *)
CountsInRange(c) ==
    /\ 0 <= c.deleted_chunks
    /\ c.deleted_chunks <= c.total_chunks
    /\ c.total_chunks <= NumSlots

\* C16: at every point of process_region_file, in every result and in every
\* event, deleted_chunks <= total_chunks <= the number of slots of a file;
\* and the two counters of the run never decrease.
CountsBoundedCountersGrow ==
    /\ [](/\ \A w \in Workers : CountsInRange(wk[w].st) /\ CountsInRange(wk[w].st.res)
          /\ \A f \in FileIds : CountsInRange(done[f])
          /\ \A i \in Positions("ProcessedRegion") : CountsInRange(chan[i].res)
          /\ total_deleted_chunks <= total_chunks)
    /\ [][/\ total_chunks' >= total_chunks
          /\ total_deleted_chunks' >= total_deleted_chunks]_vars

\* C16 witness: two files have added their counts; every chunk of one of
\* them was removed
CountersAfterTwoFiles ==
    /\ total_chunks >= 4 /\ total_deleted_chunks >= 3
    /\ \E f \in FileIds :
          /\ done[f].ok /\ done[f].total_chunks >= 2
          /\ done[f].deleted_chunks = done[f].total_chunks

(* ==================== properties of the command-line tool ============== *)
ChecksWorld == epc = "cli_check" /\ epc' # epc
Proceeds == epc' = "cli_confirm"

\* C17: with --force the tool goes on to the confirmation whether or not
\* level.dat and the region directory exist; without it the tool goes on
\* only when both exist.
ForceSkipsWorldChecks ==
    [][ChecksWorld =>
          (Proceeds <=> (cli.force \/ (cli.level_dat /\ cli.region)))]_vars

\* what holds: --force skips the check of level.dat only
ForceSkipsLevelDatCheck ==
    [][ChecksWorld =>
          (Proceeds <=> ((cli.force \/ cli.level_dat) /\ cli.region))]_vars

(* ================== properties of a file that fails ==================== *)
Min(S) == CHOOSE m \in S : \A k \in S : m <= k
Undecodable(file) == {i \in Slots : file.slots[i].kind = "undecodable"}
Unreadable(file) == {i \in Slots : file.slots[i].kind = "unreadable"}
\* the threshold process_region_file compares a chunk's time with
Compared == Mul20(max_inhabited_time) \div 20

\* C18: a file that opens and has a payload that does not decode returns
\* the NBT error, at the first such slot: the loops stop there, no slot from
\* there on is changed, the file keeps its length, and the file's event
\* carries the error and no counts.
DecodeFailureAbortsFile ==
    \A f \in FileIds :
        /\ (Returned(f) /\ world0[f].container = "ok" /\ Undecodable(world0[f]) # {})
              => done[f] = ErrResult("NBTError")
        /\ done[f].err = "NBTError" =>
              /\ Undecodable(world0[f]) # {}
              /\ LET k == Min(Undecodable(world0[f]))
                 IN /\ \A i \in Slots : i >= k => world[f].slots[i] = world0[f].slots[i]
                    /\ \A w \in Workers :
                          (Busy(w) /\ wk[w].file = f) => wk[w].st.idx = k
              /\ world[f].len = world0[f].len
              /\ \A i \in RegionEvents(f) : chan[i].res = ErrResult("NBTError")
              /\ RunOver => RegionEvents(f) # {}

\* C18 witness: the first slot does not decode, the second holds a chunk at
\* or under the threshold; the file's event with the NBT error was sent and
\* the chunk is still in the file
DecodeFailedBeforeRemovableChunk ==
    \E f \in FileIds :
        /\ run = 1 /\ RunOver
        /\ done[f].err = "NBTError"
        /\ world0[f].slots[0].kind = "undecodable"
        /\ world[f].slots[1].kind = "chunk" /\ world[f].slots[1].time <= Compared
        /\ \E i \in RegionEvents(f) : chan[i].res.err = "NBTError"

\* C19: a file that opens and has a payload read_chunk fails on (ahead of
\* any payload that does not decode) returns an error of the I/O or the
\* container class; only an empty slot is passed over.
ReadFailureIsFileError ==
    \A f \in FileIds :
        (/\ Returned(f) /\ world0[f].container = "ok"
         /\ Unreadable(world0[f]) # {}
         /\ \A i \in Undecodable(world0[f]) : i > Min(Unreadable(world0[f])))
            => done[f].err \in {"IOError", "AnvilError"}

\* the slots the run has removed from the file on disk
RemovedOnDisk(f) ==
    {i \in Slots : world0[f].slots[i].kind # "empty" /\ world[f].slots[i].kind = "empty"}
Succeeded == {f \in FileIds : done[f].ok}
Failed == {f \in FileIds : Returned(f) /\ ~done[f].ok}
FailedMidWay == {f \in Failed : RemovedOnDisk(f) # {}}
RemovedIn(S) == SumOver([f \in S |-> Cardinality(RemovedOnDisk(f))], S)

Disconnect ==
    /\ outcome = "Ok"
    /\ rxAlive
    /\ rxAlive' = FALSE
    /\ prev' = [done |-> done, world |-> world]
    /\ UNCHANGED <<world, diskVars, execVars, tpc, pending, full, wk, atomVars, chan,
                   done, run, world0>>

\* worlds in which at most one file opens (the others fail at once, which
\* keeps the interleavings of the workers few)
CancelWorlds ==
    {w \in Worlds : Cardinality({i \in DOMAIN w : w[i].container = "ok"}) <= 1}

CancelInit ==
    /\ \E w \in CancelWorlds : Fresh(w, TRUE, 0)
    /\ run = 1
    /\ prev = [done |-> <<>>, world |-> <<>>]

CancelNext ==
    \/ Execute
    \/ Thread
    \/ \E w \in Workers : Worker(w)
    \/ Disconnect
    \/ \E w \in Workers : WorkerReturn(w)

CancelSpec == CancelInit /\ [][CancelNext]_vars

\* the files whose processing has returned since the receiver was dropped
CompletedAfterDrop ==
    IF rxAlive THEN {}
    ELSE {f \in FileIds : Returned(f) /\ prev.done[f].err = "none"}

\* C21: the disconnect is noticed at a send only, so files are still
\* processed after it, but at most as many as there are workers: each
\* worker brings at most one file to its return after the receiver is gone.
AtMostOneFilePerWorkerAfterDrop ==
    /\ Cardinality(CompletedAfterDrop) <= NumWorkers
    /\ \A f \in CompletedAfterDrop : RegionEvents(f) = {}

\* C21 witness: the run is over; since the drop every worker has brought one
\* file to its return, a chunk was removed in one of them, and a file is left
\* that no worker has taken
EveryWorkerFinishedOneAfterDrop ==
    /\ ~rxAlive /\ RunOver
    /\ Cardinality(CompletedAfterDrop) = NumWorkers
    /\ \E f \in CompletedAfterDrop : done[f].ok /\ world[f] # prev.world[f]
    /\ pending # {}

\* the same bound for the worlds of Spec: a file that returns after the drop
\* has no event, and the files returned without an event are never more than
\* the workers
UnsentAtMostOnePerWorker ==
    Cardinality({f \in FileIds : Returned(f) /\ RegionEvents(f) = {}}) <= NumWorkers

(* ================= execute is called again in the process ============== *)
\* the caller of the library calls execute once more, on the same world,
\* after a call has returned (outcome keeps the last value returned)
CallAgain ==
    /\ epc = "returned" /\ outcome # "panic"
    /\ epc' = "check_world"
    /\ UNCHANGED <<world, diskVars, outcome, poolBuilt, files, size_before, tpc,
                   pending, full, wk, atomVars, chan, rxAlive, done, histVars>>

AgainNext ==
    \/ Next
    \/ CallAgain

AgainSpec == FairInit /\ [][AgainNext]_vars

\* a call made after a call has installed the pool, not yet past the pool
LaterCall == poolBuilt /\ epc \in {"check_world", "build_pool"}

\* C22: the pool is installed once in a process and stays; a call of
\* execute made after that, on a world folder that exists, goes from the
\* check of the folder to the pool and returns RayonError there, and its
\* steps enumerate no file, send no event, change no file and start no
\* thread; whether the earlier run is over, cancelled or running.
LaterCallReturnsRayonError ==
    [][/\ poolBuilt => poolBuilt'
       /\ (epc = "build_pool" /\ epc' = "collect") => ~poolBuilt
       /\ (epc = "spawn" /\ epc' # epc) => tpc = "none"
       /\ (LaterCall /\ worldExists /\ epc' # epc) =>
              /\ epc = "check_world" => epc' = "build_pool"
              /\ epc = "build_pool" => (epc' = "returned" /\ outcome' = "RayonError")
              /\ UNCHANGED <<world, files, size_before, chan, tpc, pending, full, wk,
                             done, rxAlive>>]_vars

\* C22 witness: a later call has returned RayonError while the workers of
\* the first run are between the slots of their files, the consumer connected
LaterCallReturnedDuringRun ==
    /\ epc = "returned" /\ outcome = "RayonError"
    /\ tpc = "dispatch" /\ rxAlive
    /\ \E w \in Workers : wk[w].pc = "call" /\ wk[w].st.pc = "iter" /\ wk[w].st.idx >= 1

(* ===================== properties of the threshold ===================== *)
\* C23: whatever the configured threshold, times 20 and then divided by 20
\* it is the threshold again, and a chunk of a file processed with success
\* is removed exactly when its time is at or under the threshold.
RemovalDependsOnThresholdOnly ==
    \A f \in FileIds :
        done[f].ok =>
            /\ Mul20(max_inhabited_time) \div 20 = max_inhabited_time
            /\ \A i \in ChunkSlots(world0[f]) :
                  (world[f].slots[i] = EmptySlot)
                      <=> (world0[f].slots[i].time <= max_inhabited_time)

\* what holds: the decision is taken against (T * 20 mod 2^w) / 20, which is
\* T for the thresholds whose product with 20 fits the word
RemovalDependsOnWrappedThreshold ==
    /\ max_inhabited_time * 20 <= UsizeMax => Compared = max_inhabited_time
    /\ \A f \in FileIds :
          done[f].ok =>
              \A i \in ChunkSlots(world0[f]) :
                  (world[f].slots[i] = EmptySlot)
                      <=> (world0[f].slots[i].time <= Compared)

(* ======================= the graphical front end ======================= *)
\* gui main.rs:104-139, 158-162  "Delete unused chunks" with no error shown:
\* launch copies the world to the backup folder, and gives up when the copy
\* fails (as it does when the world folder is missing)
GuiLaunch ==
    /\ epc = "gui_idle"
    /\ \E copied \in {c \in BOOLEAN : c => worldExists} :
          epc' = IF copied THEN "check_world" ELSE "gui_errs"
    /\ UNCHANGED <<world, diskVars, outcome, poolBuilt, files, size_before, tpc,
                   pending, full, wk, atomVars, chan, rxAlive, done, histVars>>

\* gui main.rs:174-177, 128-137  lessanvil::execute(config)?; the Receiver
\* of an Ok is dropped with the statement and launch returns Ok; an Err is
\* put among the errors shown, which are never cleared
GuiReturn ==
    /\ epc = "returned" /\ outcome # "panic"
    /\ epc' = IF outcome = "Ok" THEN "gui_idle" ELSE "gui_errs"
    /\ rxAlive' = (rxAlive /\ outcome # "Ok")
    /\ UNCHANGED <<world, diskVars, outcome, poolBuilt, files, size_before, tpc,
                   pending, full, wk, atomVars, chan, done, histVars>>

GuiInit ==
    /\ \E w \in {v \in Worlds : Len(v) <= MaxFairFiles}, e \in BOOLEAN,
          t \in {0, MaxTime} : FreshFrom(w, e, t, NoCli, "gui_idle")
    /\ run = 1
    /\ prev = [done |-> <<>>, world |-> <<>>]

Gui ==
    \/ GuiLaunch
    \/ GuiReturn

GuiNext ==
    \/ Gui
    \/ Execute
    \/ Thread
    \/ \E w \in Workers : Worker(w)
    \/ \E w \in Workers : WorkerReturn(w)

GuiSpec == GuiInit /\ [][GuiNext]_vars

\* C24: the run that launch starts is not cancelled by the front end: no
\* closure returns Err, and when the run is over every enumerated region
\* file has been processed.
GuiRunProcessesEveryFile ==
    /\ ~full
    /\ RunOver => \A f \in Enumerated : Returned(f)

====
